---- MODULE Spec2Model ----
(***************************************************************************)
(* A model of src/steps/scoring.py: the ScoreSweeps dataclass.             *)
(*                                                                         *)
(* An instance holds two collections, intervals (a sequence of             *)
(* <<start, end>> pairs) and sweep_positions (a sequence of integers),     *)
(* loaded by _read_bed at construction or assigned directly afterwards,    *)
(* and the attributes calculate_stats attaches to it.                      *)
(*                                                                         *)
(* Numbers.  Integer attributes (numpy int64 / float64 holding whole       *)
(* numbers) are modelled by their value.  Float attributes are modelled    *)
(* as exact rationals [k |-> "fin", n, d] in lowest terms, plus the IEEE   *)
(* specials numpy's true division yields for a zero divisor: "nan" (0/0)   *)
(* and "inf" (x/0, signed by n).  Rounding of binary floating point is     *)
(* not modelled.                                                           *)
(***************************************************************************)
EXTENDS Integers, Sequences, FiniteSets

\* ---------------------------------------------------------------- bounds
\* Coordinates range over 0..MaxCoord.
MaxCoord == 3
\* At most MaxIntervals intervals are assigned to an instance.
MaxIntervals == 2
\* At most MaxSweeps sweep positions are assigned to an instance.
MaxSweeps == 2
\* A BED file has at most MaxLines lines.
MaxLines == 2
\* After construction each collection is assigned at most MaxAssigns times.
MaxAssigns == 1

\* The denominator of the default FP_weight, 1e-5 = 1/100000.
DefaultFPWeightDen == 100000

VARIABLES
    \* ---- loader (construction)
    pc,               \* "new" | "intervals_loaded" | "constructed" | "failed"
    bedfile,          \* the argument of the last _read_bed call
    read_outcome,     \* how the last _read_bed call ended
    read_result,      \* what the last _read_bed call returned
    \* ---- instance attributes
    intervals,
    sweep_positions,
    attrs,            \* names of the derived attributes the instance has
    interval_lengths,
    interval_sweep_hits,
    true_positive_count,
    true_positive_score,
    false_negative_count,
    false_negative_score,
    false_positive_count_weighted,
    f1,
    \* ---- history of the calls made on the instance
    outcome,          \* "none" | "ok" | "overlap": how the last calculate_stats ended
    FP_weight,        \* the argument of the last calculate_stats call
    prev_w,           \* the argument of the successful call before it on the same data
    fresh,            \* no collection was reassigned since the last calculate_stats
    n_intervals_set,  \* how many times intervals was assigned after construction
    n_sweeps_set      \* how many times sweep_positions was assigned after construction

loader_vars == <<pc, bedfile, read_outcome, read_result>>
data_vars == <<intervals, sweep_positions>>
derived_vars == <<attrs, interval_lengths, interval_sweep_hits, true_positive_count,
                  true_positive_score, false_negative_count, false_negative_score,
                  false_positive_count_weighted, f1>>
call_vars == <<outcome, FP_weight, prev_w, fresh>>
assign_vars == <<n_intervals_set, n_sweeps_set>>
history_vars == <<call_vars, assign_vars>>
vars == <<loader_vars, data_vars, derived_vars, history_vars>>

\* ------------------------------------------------------------ arithmetic
Abs(x) == IF x < 0 THEN -x ELSE x
Max(a, b) == IF a >= b THEN a ELSE b
Min(a, b) == IF a <= b THEN a ELSE b

RECURSIVE GCD(_, _)
GCD(a, b) == IF b = 0 THEN a ELSE GCD(b, a % b)

\* The rational n/d (d > 0) in lowest terms.
Num(n, d) ==
    LET g == GCD(Abs(n), d)
    IN  [k |-> "fin", n |-> n \div g, d |-> d \div g]
NaN == [k |-> "nan", n |-> 0, d |-> 0]
Inf(sign) == [k |-> "inf", n |-> sign, d |-> 0]
FromInt(i) == Num(i, 1)

Add(a, b) == Num(a.n * b.d + b.n * a.d, a.d * b.d)
Mul(a, b) == Num(a.n * b.n, a.d * b.d)
\* numpy true division of finite operands: a zero divisor gives nan or +-inf
\* (with a RuntimeWarning), never an exception.
Div(a, b) ==
    IF b.n = 0
    THEN IF a.n = 0 THEN NaN ELSE Inf(IF a.n > 0 THEN 1 ELSE -1)
    ELSE IF b.n > 0 THEN Num(a.n * b.d, a.d * b.n)
         ELSE Num(-(a.n * b.d), a.d * (-b.n))

RECURSIVE SumSeq(_)
SumSeq(s) == IF s = <<>> THEN 0 ELSE s[1] + SumSeq(Tail(s))

\* --------------------------------------------------------------- inputs
Coords == 0..MaxCoord
IntervalValues == Coords \X Coords
SeqsUpTo(S, n) == UNION {[1..m -> S] : m \in 0..n}
IntervalSeqs == SeqsUpTo(IntervalValues, MaxIntervals)
SweepSeqs == SeqsUpTo(Coords, MaxSweeps)
\* FP_weight arguments: the default 1e-5, its double, and 1.
FPWeights == {Num(1, DefaultFPWeightDen), Num(2, DefaultFPWeightDen), FromInt(1)}
NoWeight == NaN

DerivedNames == {"interval_lengths", "interval_sweep_hits", "true_positive_count",
                 "true_positive_score", "false_negative_count", "false_negative_score",
                 "false_positive_count_weighted", "f1"}

\* ---------------------------------------------------------------- loader
\* A line of a BED file is the sequence of its characters, as iterating the
\* open file yields it (its line break included).  The sample lines hold no
\* "_" and no non-ASCII digits, which int() would also accept.
SampleLines == {
    <<"c", " ", "0", " ", "1", "\n">>,                  \* "c 0 1"
    <<"c", "\t", "1", " ", " ", "2", " ", "x", "\n">>,  \* "c<TAB>1  2 x"
    <<"#", "c", " ", "0", " ", "2", "\n">>,             \* "#c 0 2"
    <<"c", " ", "1", "\n">>,                            \* "c 1"
    <<"\n">>,                                           \* a blank line
    <<" ", "#", "c", " ", "2", " ", "0", "\n">>,        \* " #c 2 0"
    <<"c", " ", "x", " ", "1", "\n">>,                  \* "c x 1"
    <<"c", " ", "1", " ", "2", "x">>,                   \* "c 1 2x", no line break
    <<"c", " ", "-", "1", " ", "+", "1", "2", "\n">>    \* "c -1 +12"
}
\* A path is None (given = FALSE) or names a readable file with these lines.
NoSource == [given |-> FALSE, lines |-> <<>>]
Paths == {NoSource} \cup {[given |-> TRUE, lines |-> ls] : ls \in SeqsUpTo(SampleLines, MaxLines)}

\* line.startswith('#')
StartsWithHash(line) == Len(line) > 0 /\ line[1] = "#"

IsSpace(c) == c \in {" ", "\t", "\n", "\r", "\f"}

\* line.strip().split(): the maximal runs of non-whitespace characters.
RECURSIVE SplitFrom(_, _, _, _)
SplitFrom(line, i, cur, acc) ==
    IF i > Len(line)
    THEN IF cur = <<>> THEN acc ELSE Append(acc, cur)
    ELSE IF IsSpace(line[i])
         THEN SplitFrom(line, i + 1, <<>>, IF cur = <<>> THEN acc ELSE Append(acc, cur))
         ELSE SplitFrom(line, i + 1, Append(cur, line[i]), acc)
Split(line) == SplitFrom(line, 1, <<>>, <<>>)

Digits == {"0", "1", "2", "3", "4", "5", "6", "7", "8", "9"}
DigitValue(c) ==
    CASE c = "0" -> 0 [] c = "1" -> 1 [] c = "2" -> 2 [] c = "3" -> 3 [] c = "4" -> 4
      [] c = "5" -> 5 [] c = "6" -> 6 [] c = "7" -> 7 [] c = "8" -> 8 [] c = "9" -> 9

HasSign(token) == Len(token) > 0 /\ token[1] \in {"+", "-"}
Magnitude(token) == IF HasSign(token) THEN Tail(token) ELSE token
\* int(token) returns (rather than raising ValueError): an optional sign, then
\* one or more decimal digits.
IntParses(token) ==
    /\ Magnitude(token) # <<>>
    /\ \A i \in 1..Len(Magnitude(token)) : Magnitude(token)[i] \in Digits
RECURSIVE DecimalValue(_, _)
DecimalValue(digits, acc) ==
    IF digits = <<>> THEN acc
    ELSE DecimalValue(Tail(digits), 10 * acc + DigitValue(digits[1]))
\* int(token), where it parses.
IntValue(token) ==
    IF HasSign(token) /\ token[1] = "-"
    THEN -DecimalValue(Magnitude(token), 0)
    ELSE DecimalValue(Magnitude(token), 0)

\* The loop of _read_bed over the remaining lines: the records appended so
\* far, and whether an int() call raised ValueError (which ends the loop).
RECURSIVE ReadLines(_, _)
ReadLines(lines, acc) ==
    IF lines = <<>> THEN [raised |-> FALSE, records |-> acc]
    ELSE LET line == Head(lines)
             parts == Split(line)
         IN  IF StartsWithHash(line) THEN ReadLines(Tail(lines), acc)
             ELSE IF Len(parts) < 3 THEN ReadLines(Tail(lines), acc)
             ELSE IF ~IntParses(parts[2]) \/ ~IntParses(parts[3])
                  THEN [raised |-> TRUE, records |-> acc]
             ELSE ReadLines(Tail(lines),
                            Append(acc, <<IntValue(parts[2]), IntValue(parts[3])>>))

\* _read_bed(bedfile): how the call ends and, when it returns, what it returns.
\*   "warned"            no source: warnings.warn, returns []
\*   "returned"          returns the records read
\*   "validation_error"  raises the ValueError of line 41
\*   "int_error"         int() raised ValueError at line 37 or 38
_read_bed(path) ==
    IF ~path.given THEN [outcome |-> "warned", result |-> <<>>]
    ELSE LET r == ReadLines(path.lines, <<>>)
         IN  IF r.raised THEN [outcome |-> "int_error", result |-> <<>>]
             ELSE IF r.records = <<>> THEN [outcome |-> "validation_error", result |-> <<>>]
             ELSE [outcome |-> "returned", result |-> r.records]

Returns(r) == r.outcome \in {"warned", "returned"}

\* __post_init__, first statement: self.intervals = np.array(self._read_bed(...)).
_load_intervals(path) ==
    LET r == _read_bed(path)
    IN  /\ pc = "new"
        /\ bedfile' = path
        /\ read_outcome' = r.outcome
        /\ read_result' = r.result
        /\ IF Returns(r)
           THEN pc' = "intervals_loaded" /\ intervals' = r.result
           ELSE pc' = "failed" /\ UNCHANGED intervals
        /\ UNCHANGED <<sweep_positions, derived_vars, history_vars>>

\* __post_init__, second statement: the end coordinate of every record read.
_load_sweep_positions(path) ==
    LET r == _read_bed(path)
    IN  /\ pc = "intervals_loaded"
        /\ bedfile' = path
        /\ read_outcome' = r.outcome
        /\ read_result' = r.result
        /\ IF Returns(r)
           THEN /\ pc' = "constructed"
                /\ sweep_positions' = [i \in 1..Len(r.result) |-> r.result[i][2]]
           ELSE pc' = "failed" /\ UNCHANGED sweep_positions
        /\ UNCHANGED <<intervals, derived_vars, history_vars>>

\* ------------------------------------------------------- scoring helpers
\* A slip: only tests whether interval2 starts inside interval1.
_interval_overlap_one_sided(interval1, interval2) ==
    interval1[1] <= interval2[1] /\ interval2[1] <= interval1[2]

_interval_overlap(interval1, interval2) ==
    Max(interval1[1], interval2[1]) <= Min(interval1[2], interval2[2])

\* A slip: the inner loop starts at i + 2, so neighbours are never compared.
_check_interval_overlap_skips_neighbour(ivs) ==
    \E i \in 1..Len(ivs) : \E j \in (i + 2)..Len(ivs) :
        _interval_overlap(ivs[i], ivs[j])

\* TRUE iff _check_interval_overlap raises ValueError.
_check_interval_overlap(ivs) ==
    \E i \in 1..Len(ivs) : \E j \in (i + 1)..Len(ivs) :
        _interval_overlap(ivs[i], ivs[j])

\* A slip: the interval closed on the left as well.
_sweep_in_interval_closed(sweep_position, interval) ==
    interval[1] <= sweep_position /\ sweep_position <= interval[Len(interval)]

_sweep_in_interval(sweep_position, interval) ==
    interval[1] < sweep_position /\ sweep_position <= interval[Len(interval)]

\* A slip: the lengths computed once and kept.
_get_interval_lengths_cached(ivs) ==
    IF "interval_lengths" \in attrs THEN interval_lengths
    ELSE [i \in 1..Len(ivs) |-> ivs[i][Len(ivs[i])] - ivs[i][1]]

_get_interval_lengths(ivs) ==
    [i \in 1..Len(ivs) |-> ivs[i][Len(ivs[i])] - ivs[i][1]]

RECURSIVE CountHits(_, _)
CountHits(sweeps, interval) ==
    IF sweeps = <<>> THEN 0
    ELSE (IF _sweep_in_interval(sweeps[1], interval) THEN 1 ELSE 0)
         + CountHits(Tail(sweeps), interval)

_get_interval_sweep_hits_and_misses(ivs, sweeps) ==
    [i \in 1..Len(ivs) |-> CountHits(sweeps, ivs[i])]

TruePositiveCount(hits) == SumSeq(hits)
TruePositiveScore(tp, sweeps) == Div(FromInt(tp), FromInt(Len(sweeps)))
\* A slip: len(self.interval_sweep_hits) for len(self.sweep_positions).
FalseNegativeCount_of_intervals(hits, sweeps) == Len(hits) - SumSeq(hits)
FalseNegativeCount(hits, sweeps) == Len(sweeps) - SumSeq(hits)
FalseNegativeScore(fn, sweeps) == Div(FromInt(fn), FromInt(Len(sweeps)))
\* A slip: the default weight used whatever FP_weight is passed.
FalsePositiveCountWeighted_default(lengths, w) ==
    Mul(FromInt(SumSeq(lengths)), Num(1, DefaultFPWeightDen))
FalsePositiveCountWeighted(lengths, w) == Mul(FromInt(SumSeq(lengths)), w)
F1(tp, fn, fpw) ==
    Div(FromInt(tp),
        Add(FromInt(tp), Mul(Add(FromInt(fn), fpw), Num(1, 2))))

\* ------------------------------------------------------------- actions
\* s.intervals = ivs / s.sweep_positions = sweeps.  The collections are plain
\* attributes, which the caller sets when no source was given ("Set intervals
\* manually.") and may set again at any time.
AssignIntervals(ivs) ==
    /\ pc = "constructed"
    /\ n_intervals_set < MaxAssigns
    /\ n_intervals_set' = n_intervals_set + 1
    /\ intervals' = ivs
    /\ fresh' = FALSE
    /\ prev_w' = NoWeight
    /\ UNCHANGED <<loader_vars, sweep_positions, derived_vars, outcome, FP_weight,
                   n_sweeps_set>>

AssignSweepPositions(sweeps) ==
    /\ pc = "constructed"
    /\ n_sweeps_set < MaxAssigns
    /\ n_sweeps_set' = n_sweeps_set + 1
    /\ sweep_positions' = sweeps
    /\ fresh' = FALSE
    /\ prev_w' = NoWeight
    /\ UNCHANGED <<loader_vars, intervals, derived_vars, outcome, FP_weight,
                   n_intervals_set>>

\* A slip: the overlap check made after _get_interval_lengths.
CalculateStatsRaises_after_lengths ==
    /\ interval_lengths' = _get_interval_lengths(intervals)
    /\ attrs' = attrs \cup {"interval_lengths"}
    /\ UNCHANGED <<interval_sweep_hits, true_positive_count, true_positive_score,
                   false_negative_count, false_negative_score,
                   false_positive_count_weighted, f1>>

\* calculate_stats when _check_interval_overlap raises: line 105 is the first
\* statement, so nothing was assigned yet.
CalculateStatsRaises ==
    UNCHANGED derived_vars

\* calculate_stats past line 105: every statement of lines 106-116, each
\* reading the attributes the statements before it assigned.
CalculateStatsCompletes(w) ==
    LET lengths == _get_interval_lengths(intervals)
        hits == _get_interval_sweep_hits_and_misses(intervals, sweep_positions)
        tp == TruePositiveCount(hits)
        fn == FalseNegativeCount(hits, sweep_positions)
        fpw == FalsePositiveCountWeighted(lengths, w)
    IN  /\ interval_lengths' = lengths
        /\ interval_sweep_hits' = hits
        /\ true_positive_count' = tp
        /\ true_positive_score' = TruePositiveScore(tp, sweep_positions)
        /\ false_negative_count' = fn
        /\ false_negative_score' = FalseNegativeScore(fn, sweep_positions)
        /\ false_positive_count_weighted' = fpw
        /\ f1' = F1(tp, fn, fpw)
        /\ attrs' = attrs \cup DerivedNames

calculate_stats(w) ==
    /\ pc = "constructed"
    /\ FP_weight' = w
    /\ fresh' = TRUE
    /\ UNCHANGED <<loader_vars, data_vars, assign_vars>>
    /\ IF _check_interval_overlap(intervals)
       THEN /\ outcome' = "overlap"
            /\ prev_w' = NoWeight
            /\ CalculateStatsRaises
       ELSE /\ outcome' = "ok"
            /\ prev_w' = (IF fresh /\ outcome = "ok" THEN FP_weight ELSE NoWeight)
            /\ CalculateStatsCompletes(w)

\* ScoreSweeps(): both paths default to None, so both collections are empty.
Init ==
    /\ pc = "constructed"
    /\ bedfile = NoSource
    /\ read_outcome = "warned"
    /\ read_result = <<>>
    /\ intervals = <<>>
    /\ sweep_positions = <<>>
    /\ attrs = {}
    /\ interval_lengths = <<>>
    /\ interval_sweep_hits = <<>>
    /\ true_positive_count = 0
    /\ true_positive_score = NaN
    /\ false_negative_count = 0
    /\ false_negative_score = NaN
    /\ false_positive_count_weighted = NaN
    /\ f1 = NaN
    /\ outcome = "none"
    /\ FP_weight = NoWeight
    /\ prev_w = NoWeight
    /\ fresh = FALSE
    /\ n_intervals_set = 0
    /\ n_sweeps_set = 0

Next ==
    \/ \E ivs \in IntervalSeqs : AssignIntervals(ivs)
    \/ \E sweeps \in SweepSeqs : AssignSweepPositions(sweeps)
    \/ \E w \in FPWeights : calculate_stats(w)

Spec == Init /\ [][Next]_vars
\* The constructor: ScoreSweeps(intervals_bed_path, sweep_positions_path)
\* before __post_init__ has run.
InitLoad ==
    /\ pc = "new"
    /\ bedfile = NoSource
    /\ read_outcome = "none"
    /\ read_result = <<>>
    /\ intervals = <<>>
    /\ sweep_positions = <<>>
    /\ attrs = {}
    /\ interval_lengths = <<>>
    /\ interval_sweep_hits = <<>>
    /\ true_positive_count = 0
    /\ true_positive_score = NaN
    /\ false_negative_count = 0
    /\ false_negative_score = NaN
    /\ false_positive_count_weighted = NaN
    /\ f1 = NaN
    /\ outcome = "none"
    /\ FP_weight = NoWeight
    /\ prev_w = NoWeight
    /\ fresh = FALSE
    /\ n_intervals_set = 0
    /\ n_sweeps_set = 0

NextLoad ==
    \/ \E path \in Paths : _load_intervals(path)
    \/ \E path \in Paths : _load_sweep_positions(path)

SpecLoad == InitLoad /\ [][NextLoad]_vars
\* ================================================================ claims
\* What the claims speak of, written from their wording and independently of
\* the operators above.
Calls == fresh                              \* the last operation was calculate_stats
Succeeded == fresh /\ outcome = "ok"        \* ... and it returned
Hit(p, interval) == interval[1] < p /\ p <= interval[2]
HitsIn(i) == {k \in 1..Len(sweep_positions) : Hit(sweep_positions[k], intervals[i])}
Overlapping(ivs) ==
    \E i, j \in 1..Len(ivs) :
        /\ i # j
        /\ (IF ivs[i][1] >= ivs[j][1] THEN ivs[i][1] ELSE ivs[j][1])
              <= (IF ivs[i][2] <= ivs[j][2] THEN ivs[i][2] ELSE ivs[j][2])
Permutations(n) == {p \in [1..n -> 1..n] : \A a, b \in 1..n : p[a] = p[b] => a = b}
Reorder(ivs, p) == [i \in 1..Len(ivs) |-> ivs[p[i]]]
Double(w) == Num(2 * w.n, w.d)

\* C1: calculate_stats raises the overlap error if and only if two distinct
\* stored intervals satisfy max(s1,s2) <= min(e1,e2), and the overlap check
\* gives the same answer for every ordering of the stored intervals.
C1_OverlapRaisedExactly ==
    Calls =>
        /\ (outcome = "overlap") <=> Overlapping(intervals)
        /\ \A p \in Permutations(Len(intervals)) :
              _check_interval_overlap(Reorder(intervals, p)) <=> (outcome = "overlap")
\* A call raised on two different intervals, the later one starting first.
C1_Witness ==
    /\ Calls /\ outcome = "overlap" /\ Len(intervals) = 2
    /\ intervals[2][1] < intervals[1][1]
    /\ intervals[1][2] < intervals[2][2]

\* C2 (as stated): after a successful call interval_sweep_hits has one entry
\* per interval, entry i counts the sweep positions p with start_i < p <= end_i,
\* no position equal to start_i is counted in interval i and every position
\* equal to end_i is.
C2_Original ==
    Succeeded =>
        /\ Len(interval_sweep_hits) = Len(intervals)
        /\ \A i \in 1..Len(intervals) :
              /\ interval_sweep_hits[i] = Cardinality(HitsIn(i))
              /\ interval_sweep_hits[i] <=
                    Cardinality({k \in 1..Len(sweep_positions) :
                                    sweep_positions[k] # intervals[i][1]})
              /\ interval_sweep_hits[i] >=
                    Cardinality({k \in 1..Len(sweep_positions) :
                                    sweep_positions[k] = intervals[i][2]})
\* C2 (amended): the same, with a position equal to end_i counted when
\* start_i < end_i; an interval with start_i >= end_i counts no position.
C2_HitCounts ==
    Succeeded =>
        /\ Len(interval_sweep_hits) = Len(intervals)
        /\ \A i \in 1..Len(intervals) :
              /\ interval_sweep_hits[i] = Cardinality(HitsIn(i))
              /\ interval_sweep_hits[i] <=
                    Cardinality({k \in 1..Len(sweep_positions) :
                                    sweep_positions[k] # intervals[i][1]})
              /\ intervals[i][1] < intervals[i][2] =>
                    interval_sweep_hits[i] >=
                        Cardinality({k \in 1..Len(sweep_positions) :
                                        sweep_positions[k] = intervals[i][2]})
              /\ intervals[i][1] >= intervals[i][2] => interval_sweep_hits[i] = 0
\* A successful call on two intervals, the second with one position on its
\* start and one on its end.
C2_Witness ==
    /\ Succeeded /\ Len(intervals) = 2 /\ Len(sweep_positions) = 2
    /\ intervals[2][1] < intervals[2][2]
    /\ sweep_positions[1] = intervals[2][1]
    /\ sweep_positions[2] = intervals[2][2]
    /\ interval_sweep_hits[2] = 1

\* C3: after every successful call, true_positive_count + false_negative_count
\* is the number of stored sweep positions.
C3_Conservation ==
    Succeeded => true_positive_count + false_negative_count = Len(sweep_positions)
\* A successful call with both a hit and a miss.
C3_Witness ==
    Succeeded /\ true_positive_count > 0 /\ false_negative_count > 0

\* C4: a call on an instance whose sweep-position collection is empty raises
\* an error: it does not complete (with NaN or infinite scores).
C4_EmptySweepsRaise ==
    (Calls /\ sweep_positions = <<>>) => outcome # "ok"

\* A step that calls calculate_stats with twice the weight of the successful
\* call just before it, on the same stored data, and succeeds.
C5_DoublingCall ==
    /\ Succeeded /\ Succeeded'
    /\ FP_weight.k = "fin" /\ FP_weight' = Double(FP_weight)
    /\ UNCHANGED data_vars
\* C5 (as stated): doubling FP_weight doubles false_positive_count_weighted
\* and leaves every other derived field, f1 included, unchanged.
C5_Original ==
    [][C5_DoublingCall =>
        /\ false_positive_count_weighted' = Double(false_positive_count_weighted)
        /\ UNCHANGED <<interval_lengths, interval_sweep_hits, true_positive_count,
                       true_positive_score, false_negative_count, false_negative_score>>
        /\ f1' = f1]_vars
\* C5 (amended): doubling FP_weight doubles false_positive_count_weighted and
\* leaves interval_lengths, interval_sweep_hits, the two counts and the two
\* scores unchanged; f1 is unchanged when the interval lengths sum to 0.
C5_DoublingScalesOnlyFP ==
    [][C5_DoublingCall =>
        /\ false_positive_count_weighted' = Double(false_positive_count_weighted)
        /\ UNCHANGED <<interval_lengths, interval_sweep_hits, true_positive_count,
                       true_positive_score, false_negative_count, false_negative_score>>
        /\ SumSeq(interval_lengths) = 0 => f1' = f1]_vars
\* The second of two successful calls on the same data, its weight twice the
\* first's, with a hit and a non-zero weighted false-positive count.
C5_Witness ==
    /\ Succeeded /\ prev_w.k = "fin" /\ FP_weight = Double(prev_w)
    /\ true_positive_count > 0
    /\ false_positive_count_weighted.n # 0

\* C8: after a call that passed the overlap validation, every stored sweep
\* position hits at most one stored interval, 0 <= true_positive_count <= the
\* number of sweep positions, and false_negative_count >= 0.
C8_NoDoubleCount ==
    Succeeded =>
        /\ \A k \in 1..Len(sweep_positions) :
              Cardinality({i \in 1..Len(intervals) :
                              Hit(sweep_positions[k], intervals[i])}) <= 1
        /\ 0 <= true_positive_count
        /\ true_positive_count <= Len(sweep_positions)
        /\ false_negative_count >= 0
\* A successful call on two intervals that each hold one of the two positions.
C8_Witness ==
    /\ Succeeded /\ Len(intervals) = 2 /\ Len(sweep_positions) = 2
    /\ interval_sweep_hits[1] = 1 /\ interval_sweep_hits[2] = 1
    /\ true_positive_count = 2

\* C9: a call either populates all derived fields, or raises before assigning
\* or changing any of them; the stored collections are unchanged either way.
C9_AllOrNothing ==
    [][Calls' =>
        /\ \/ outcome' = "ok" /\ attrs' = DerivedNames
           \/ outcome' = "overlap" /\ UNCHANGED derived_vars
        /\ UNCHANGED data_vars]_vars
\* A call raised on an instance that still carries the fields of an earlier
\* successful call, made before the intervals were set.
C9_Witness ==
    /\ Calls /\ outcome = "overlap" /\ attrs = DerivedNames
    /\ Len(interval_lengths) # Len(intervals)

\* The derived fields as the stored collections and the weight w determine
\* them (formulas of the statistic aggregator, in closed form).
ExpectedHits == [i \in 1..Len(intervals) |-> Cardinality(HitsIn(i))]
ExpectedLengths == [i \in 1..Len(intervals) |-> intervals[i][2] - intervals[i][1]]
ExpectedTP == Cardinality(UNION {HitsIn(i) : i \in 1..Len(intervals)})
ExpectedFN == Len(sweep_positions) - ExpectedTP
Ratio(n, d) ==
    IF d = 0 THEN (IF n = 0 THEN NaN ELSE Inf(IF n > 0 THEN 1 ELSE -1))
    ELSE IF d > 0 THEN Num(n, d) ELSE Num(-n, -d)
ExpectedF1(w) ==
    Ratio(2 * w.d * ExpectedTP,
          (2 * ExpectedTP + ExpectedFN) * w.d + SumSeq(ExpectedLengths) * w.n)
C10_Determined ==
    Succeeded =>
        /\ attrs = DerivedNames
        /\ interval_lengths = ExpectedLengths
        /\ interval_sweep_hits = ExpectedHits
        /\ true_positive_count = ExpectedTP
        /\ true_positive_score = Ratio(ExpectedTP, Len(sweep_positions))
        /\ false_negative_count = ExpectedFN
        /\ false_negative_score = Ratio(ExpectedFN, Len(sweep_positions))
        /\ false_positive_count_weighted =
              Ratio(SumSeq(ExpectedLengths) * FP_weight.n, FP_weight.d)
        /\ f1 = ExpectedF1(FP_weight)
\* C10: after any earlier assignments and calls, a successful call leaves
\* every derived field equal to the value the collections stored at that call
\* and its weight determine, and a second call in a row with the same weight
\* leaves every derived field as it is.
C10_RecomputesFromStored ==
    /\ []C10_Determined
    /\ [][(Succeeded /\ Succeeded' /\ FP_weight' = FP_weight /\ UNCHANGED data_vars)
            => UNCHANGED derived_vars]_vars
\* The second of two successful calls in a row with the same weight, on an
\* instance with intervals, a hit and a miss.
C10_Witness ==
    /\ Succeeded /\ prev_w = FP_weight
    /\ true_positive_count > 0 /\ false_negative_count > 0

\* A record _read_bed can use, in the words of C6: a non-comment line with at
\* least 3 tokens.
Usable(line) == ~(Len(line) > 0 /\ line[1] = "#") /\ Len(Split(line)) >= 3
UsableLines(lines) == {i \in 1..Len(lines) : Usable(lines[i])}
\* ... and one whose start and end tokens are integers.
WellFormed(line) ==
    Usable(line) /\ IntParses(Split(line)[2]) /\ IntParses(Split(line)[3])
RECURSIVE WellFormedRecords(_)
WellFormedRecords(lines) ==
    IF lines = <<>> THEN <<>>
    ELSE (IF WellFormed(Head(lines))
          THEN << <<IntValue(Split(Head(lines))[2]), IntValue(Split(Head(lines))[3])>> >>
          ELSE <<>>) \o WellFormedRecords(Tail(lines))
ReadCalled == read_outcome # "none"

\* C6: _read_bed has exactly three outcomes: no source, a warning and an empty
\* collection; a source without usable records, the validation error; else it
\* returns one (start, end) pair per usable record.
C6_ThreeOutcomes ==
    ReadCalled =>
        /\ ~bedfile.given => read_outcome = "warned" /\ read_result = <<>>
        /\ (bedfile.given /\ UsableLines(bedfile.lines) = {}) =>
              read_outcome = "validation_error"
        /\ (bedfile.given /\ UsableLines(bedfile.lines) # {}) =>
              /\ read_outcome = "returned"
              /\ Len(read_result) = Cardinality(UsableLines(bedfile.lines))

\* C7: no malformed line (a comment, fewer than 3 tokens, a start or end that
\* is no integer) aborts loading: the well-formed records of the source are
\* loaded whenever there is one.
C7_MalformedLinesSkipped ==
    (ReadCalled /\ bedfile.given) =>
        /\ read_outcome # "int_error"
        /\ WellFormedRecords(bedfile.lines) # <<>> =>
              read_outcome = "returned" /\ read_result = WellFormedRecords(bedfile.lines)
====
